---- MODULE Spec2Model ----
(***************************************************************************)
(* Model of sg_utils_python: the sqlite3 data-access layer of              *)
(* src/sqlite3db.py (Sqlite3Db, Sqlite3Table, Sqlite3Utils) and the key    *)
(* normaliser of src/utils_string.py.                                      *)
(*                                                                         *)
(* One Sqlite3Db connection is modelled together with the database file it *)
(* is opened on.  `committed` is what the file durably holds, `work` is    *)
(* what the connection sees (the file plus its own open transaction).      *)
(* Other processes appear only as the lock conflicts the engine reports.   *)
(* The concrete table is the TestTable of the module's own test            *)
(* (key INT PRIMARY KEY, value TEXT).                                      *)
(***************************************************************************)
EXTENDS Integers, Sequences, FiniteSets, TLC

VARIABLES
  conn,         \* "open" or "closed": the state of Sqlite3Db.conn
  in_txn,       \* the connection has an open transaction
  committed,    \* table identifier -> rows the database file durably holds
  work,         \* table identifier -> rows as the connection sees them
  _table_name,  \* identifier of the constructed Sqlite3Table, or NoTable
  pc,           \* "idle", "attempt" (inside the retry loop), "reading",
                \* "done" (returned or raised; the locals are gone)
  op,           \* the operation in progress or just finished
  rows,         \* its batch argument
  target,       \* the table its statement works on
  retry_count,  \* the local retry_count of the write in progress
  result,       \* "none", Ok, or the exception that reached the caller
  attempts,     \* history: attempts the write in progress has made and seen fail
  ev,           \* history: what the write in progress has done so far
  pre,          \* history: the connection's state when the operation was called
  last,         \* history: the last write that opened a transaction
  calls,        \* history: number of transactions the write operations opened
  rd,           \* the generator of cursor_reader_tuple / cursor_reader_dict
  merge_src,    \* the database of db_to_merge, as the last merge_db left it
  key_in,       \* the string handed to safe_key_string
  key_out       \* what safe_key_string returned for it, NoKey before the call

vars == <<conn, in_txn, committed, work, _table_name,
          pc, op, rows, target, retry_count, result,
          attempts, ev, pre, last, calls, rd, merge_src, key_in, key_out>>

(***************************************************************************)
(* Bounds of the exploration.                                              *)
(***************************************************************************)
MaxBatch == 2
MaxRows == 3
MaxCalls == 1
MaxBatchSize == 2
MaxLen == 3

(***************************************************************************)
(* SQL values.  Every value carries its storage class, so that the         *)
(* conversions of column affinity are visible.                             *)
(***************************************************************************)
NULL == [ty |-> "null", v |-> ""]
IntVal(s) == [ty |-> "int", v |-> s]
TextVal(s) == [ty |-> "text", v |-> s]

NumericText == {"1", "2", "3", "4"}

\* Columns of TestTable, in declaration order.
Columns == <<"key", "value">>

\* Column affinity of TestTable: key INT, value TEXT.
Affinity(col, x) ==
  IF col = "key"
  THEN IF x.ty = "text" /\ x.v \in NumericText THEN IntVal(x.v) ELSE x
  ELSE IF x.ty = "int" THEN TextVal(x.v) ELSE x

(***************************************************************************)
(* safe_key_string.  A string is a sequence of one-character strings.      *)
(***************************************************************************)
\* The classes 0-9 and a-zA-Z of the pattern.
Digits == {"0", "1", "2", "3", "4", "5", "6", "7", "8", "9"}
Letters ==
  {"a", "b", "c", "d", "e", "f", "g", "h", "i", "j", "k", "l", "m",
   "n", "o", "p", "q", "r", "s", "t", "u", "v", "w", "x", "y", "z",
   "A", "B", "C", "D", "E", "F", "G", "H", "I", "J", "K", "L", "M",
   "N", "O", "P", "Q", "R", "S", "T", "U", "V", "W", "X", "Y", "Z"}

\* Characters outside both classes that keys are built from here.
Others == {"#", "-", " "}

\* The characters the explored keys are built from.
Chars == {"0", "9", "a", "t", "T", "Z", "_"} \cup Others

\* Variant that drops the characters outside the classes.
ReSub_Dropping(key) == SelectSeq(key, LAMBDA c : c \in Letters \cup Digits)

\* re.sub(r'[^a-zA-Z0-9]', '_', key)
ReSub(key) ==
  [i \in 1..Len(key) |-> IF key[i] \in Letters \cup Digits THEN key[i] ELSE "_"]

\* Variant that matches whatever is not a letter.
ReMatchLeadingDigit_NonLetter(key) == Len(key) > 0 /\ key[1] \notin Letters

\* re.match(r'^[0-9]', key)
ReMatchLeadingDigit(key) == Len(key) > 0 /\ key[1] \in Digits

safe_key_string(key) ==
  LET k == ReSub(key)
  IN  IF ReMatchLeadingDigit(k) THEN <<"_">> \o k ELSE k

ensure_safe_key_string(key) == safe_key_string(key)

(***************************************************************************)
(* Table names in the engine.  SQL statements find a table by its name     *)
(* without regard to the case of ASCII letters; sqlite_master stores the   *)
(* name as it was written in CREATE TABLE.                                 *)
(***************************************************************************)
UpperCase == <<"A", "B", "C", "D", "E", "F", "G", "H", "I", "J", "K", "L", "M",
               "N", "O", "P", "Q", "R", "S", "T", "U", "V", "W", "X", "Y", "Z">>
LowerCase == <<"a", "b", "c", "d", "e", "f", "g", "h", "i", "j", "k", "l", "m",
               "n", "o", "p", "q", "r", "s", "t", "u", "v", "w", "x", "y", "z">>

Lower(c) ==
  IF \E i \in 1..Len(UpperCase) : UpperCase[i] = c
  THEN LowerCase[CHOOSE i \in 1..Len(UpperCase) : UpperCase[i] = c]
  ELSE c

SameTable(a, b) ==
  /\ Len(a) = Len(b)
  /\ \A i \in 1..Len(a) : Lower(a[i]) = Lower(b[i])

\* A statement that names table id finds a table of database w.
TableExists(w, id) == \E t \in DOMAIN w : SameTable(t, id)

\* The table of w a statement that names id works on; id itself when the
\* statement will find none.
Stored(w, id) ==
  IF TableExists(w, id) THEN CHOOSE t \in DOMAIN w : SameTable(t, id) ELSE id

(***************************************************************************)
(* Exceptions, named as Python reports them.                               *)
(***************************************************************************)
Ok == "ok"
Locked == "OperationalError: database is locked"
OpError == "OperationalError"
NestedBegin == "OperationalError: cannot start a transaction within a transaction"
ProgError == "ProgrammingError"
ClosedError == "ProgrammingError: Cannot operate on a closed database"
IntegrityError == "IntegrityError"
IndexError == "IndexError"
AttributeError == "AttributeError"
KeysError == "Exception: Keys are not in the table"

(***************************************************************************)
(* The engine's execution of one INSERT statement over a list of parameter *)
(* tuples (cursor.executemany).  Rows are inserted one by one; the first   *)
(* row that fails raises and the rows before it stay in the transaction.   *)
(***************************************************************************)
ColIndex(cols, c) == CHOOSE j \in 1..Len(cols) : cols[j] = c

\* The row an INSERT INTO t (cols) VALUES (?,...) stores for parameters p.
BuildRow(cols, p) ==
  [i \in 1..Len(Columns) |->
     IF \E j \in 1..Len(cols) : cols[j] = Columns[i]
     THEN Affinity(Columns[i], p[ColIndex(cols, Columns[i])])
     ELSE NULL]

\* key INT PRIMARY KEY: a non-NULL key may occur once.
ViolatesPrimaryKey(tbl, row) ==
  row[1] # NULL /\ \E i \in 1..Len(tbl) : tbl[i][1] = row[1]

RECURSIVE ExecuteMany(_, _, _)
ExecuteMany(tbl, cols, params) ==
  IF params = <<>> THEN [tbl |-> tbl, err |-> Ok]
  ELSE LET p == Head(params)
       IN  IF Len(p) # Len(cols) THEN [tbl |-> tbl, err |-> ProgError]
           ELSE IF ViolatesPrimaryKey(tbl, BuildRow(cols, p))
                THEN [tbl |-> tbl, err |-> IntegrityError]
                ELSE ExecuteMany(Append(tbl, BuildRow(cols, p)), cols, Tail(params))

(***************************************************************************)
(* Inputs.                                                                 *)
(***************************************************************************)
NoTable == <<"?">>

\* The name a caller passes for the table; it is not its own normal form.
NameInputs == { <<"9", "#", "T">> }

\* Tuple rows: a well-formed row, one with a NULL key, one of wrong arity.
TupleRows == { <<IntVal("1"), TextVal("a")>>, <<NULL, TextVal("c")>>, <<IntVal("3")>> }

\* Mapping rows: a Python dict is its items in insertion order.
DictRows == { << <<"key", IntVal("1")>>, <<"value", TextVal("a")>> >>,
              << <<"value", TextVal("b")>>, <<"key", IntVal("2")>> >>,
              << <<"key", IntVal("3")>> >>,
              << <<"key", IntVal("4")>>, <<"bogus", TextVal("x")>> >> }

SeqsUpTo(S, n) == UNION { [1..k -> S] : k \in 0..n }

TupleBatches == SeqsUpTo(TupleRows, MaxBatch)
DictBatches == SeqsUpTo(DictRows, MaxBatch)

\* dict.keys(), dict.values()
Keys(d) == [i \in 1..Len(d) |-> d[i][1]]
Values(d) == [i \in 1..Len(d) |-> d[i][2]]
KeySet(d) == { d[i][1] : i \in 1..Len(d) }

\* opened: BEGIN was executed; rollback: ROLLBACK was executed; commit_busy:
\* a lock conflict was met at COMMIT; last_err: what the last attempt raised;
\* at_max: the last attempt was made with retry_count = max_retry; retried:
\* an attempt was made again after a lock conflict.
NoEv == [opened |-> FALSE, rollback |-> FALSE, commit_busy |-> FALSE,
         last_err |-> "none", at_max |-> FALSE, retried |-> FALSE]
NoPre == [work |-> <<>>, in_txn |-> FALSE, conn |-> "open"]
NoKey == <<"?">>
NoRd == [kind |-> "none", batch_size |-> 0, pos |-> 0, out |-> <<>>]

\* What the database file holds when Sqlite3Db(db_file) connects to it:
\* a new file, or a file in which an earlier run left a table, created under
\* the name "9#T" or under the name "9#t".
InitialDbs == { << >>,
                (<<"_", "9", "_", "T">> :> << <<IntVal("1"), TextVal("a")>> >>),
                (<<"_", "9", "_", "t">> :> << <<IntVal("1"), TextVal("a")>> >>) }

Init ==
  /\ conn = "open"
  /\ in_txn = FALSE
  /\ committed \in InitialDbs
  /\ work = committed
  /\ _table_name = NoTable
  /\ pc = "idle"
  /\ op = "none"
  /\ rows = <<>>
  /\ target = NoTable
  /\ retry_count = 0
  /\ result = "none"
  /\ attempts = 0
  /\ ev = NoEv
  /\ pre = NoPre
  /\ last = [tbl |-> NoTable, base |-> 0, blen |-> 0]
  /\ calls = 0
  /\ rd = NoRd
  /\ merge_src = <<>>
  /\ key_in = <<>>
  /\ key_out = NoKey

(***************************************************************************)
(* Sqlite3Table.__init__ with the _init_db of TestTable:                   *)
(* CREATE TABLE IF NOT EXISTS, then conn.commit().  busy says whether the  *)
(* engine reports a lock conflict at the step that needs the write lock.   *)
(***************************************************************************)
max_retry == 100

Sqlite3Table_init(table_name, busy) ==
  LET id == ensure_safe_key_string(table_name)
      created == IF TableExists(work, id) THEN work ELSE work @@ (id :> <<>>)
  IN
  /\ pc = "idle"
  /\ op' = "init" /\ rows' = <<>> /\ target' = id /\ pc' = "done"
  /\ pre' = [work |-> work, in_txn |-> in_txn, conn |-> conn]
  /\ retry_count' = 0 /\ attempts' = 0 /\ ev' = NoEv
  /\ UNCHANGED <<conn, last, calls, rd, merge_src>>
  /\ IF conn = "closed"
     THEN /\ result' = ClosedError
          /\ UNCHANGED <<in_txn, committed, work, _table_name>>
     ELSE IF id = <<>>
     THEN /\ result' = OpError
          /\ UNCHANGED <<in_txn, committed, work, _table_name>>
     ELSE IF busy /\ ~in_txn /\ ~TableExists(work, id)
     THEN \* the CREATE TABLE itself could not take the write lock
          /\ result' = Locked
          /\ UNCHANGED <<in_txn, committed, work, _table_name>>
     ELSE IF busy /\ in_txn
     THEN \* created inside the open transaction, conn.commit() failed
          /\ result' = Locked
          /\ work' = created
          /\ UNCHANGED <<in_txn, committed, _table_name>>
     ELSE /\ result' = Ok
          /\ work' = created
          /\ committed' = created
          /\ in_txn' = FALSE
          /\ _table_name' = id
  /\ key_in' = table_name /\ key_out' = id

(***************************************************************************)
(* The write operations.  The call opens the cursor and the transaction;   *)
(* each iteration of the `while True` loop is one step.                    *)
(***************************************************************************)
\* Sqlite3Table sets self.max_retry; Sqlite3Db, whose method reads it, does not.
HasMaxRetry(o) == o # "db"

\* cur = conn.cursor(); cur.execute('BEGIN TRANSACTION'); retry_count = 0
BeginWrite(o, rs, tgt) ==
  /\ op' = o /\ rows' = rs /\ target' = tgt
  /\ pre' = [work |-> work, in_txn |-> in_txn, conn |-> conn]
  /\ retry_count' = 0 /\ attempts' = 0
  /\ UNCHANGED <<conn, committed, work, _table_name, rd, merge_src>>
  /\ IF conn = "closed"
     THEN /\ pc' = "done" /\ result' = ClosedError
          /\ ev' = NoEv
          /\ UNCHANGED <<in_txn, last, calls>>
     ELSE IF in_txn
     THEN /\ pc' = "done" /\ result' = NestedBegin
          /\ ev' = NoEv
          /\ UNCHANGED <<in_txn, last, calls>>
     ELSE /\ pc' = "attempt" /\ result' = "none"
          /\ calls < MaxCalls
          /\ calls' = calls + 1
          /\ in_txn' = TRUE
          /\ ev' = [NoEv EXCEPT !.opened = TRUE]
          /\ last' = [tbl |-> tgt,
                      base |-> IF tgt \in DOMAIN committed THEN Len(committed[tgt]) ELSE 0,
                      blen |-> Len(rs)]

\* Room left in the table for the batch (bound of the exploration).
Fits(tgt, rs) ==
  tgt \in DOMAIN work => Len(work[tgt]) + Len(rs) <= MaxRows

safe_insert_many_tuple(rs) ==
  /\ pc = "idle" /\ _table_name # NoTable
  /\ Fits(Stored(work, _table_name), rs)
  /\ BeginWrite("tuple", rs, Stored(work, _table_name))
  /\ UNCHANGED <<key_in, key_out>>

db_safe_insert_many_tuple(table_name, rs) ==
  /\ pc = "idle"
  /\ Fits(Stored(work, ensure_safe_key_string(table_name)), rs)
  /\ BeginWrite("db", rs, Stored(work, ensure_safe_key_string(table_name)))
  /\ UNCHANGED <<key_in, key_out>>

\* Sqlite3Table.ensure_keys
ensure_keys(tbl_columns, keys) ==
  \A key \in keys : \E i \in 1..Len(tbl_columns) : tbl_columns[i] = key

\* Variant that collects the keys of the first row only.
UnionKeys_FirstRow(rs) == IF rs = <<>> THEN {} ELSE KeySet(rs[1])

\* keys = set(); for row in rows: keys.update(row.keys())
UnionKeys(rs) == UNION { KeySet(rs[i]) : i \in 1..Len(rs) }

safe_insert_many_dict(rs) ==
  /\ pc = "idle" /\ _table_name # NoTable
  /\ Fits(Stored(work, _table_name), rs)
  /\ IF conn = "open" /\ ~ensure_keys(Columns, UnionKeys(rs))
     THEN /\ op' = "dict" /\ rows' = rs /\ target' = Stored(work, _table_name)
          /\ pre' = [work |-> work, in_txn |-> in_txn, conn |-> conn]
          /\ retry_count' = 0 /\ attempts' = 0 /\ ev' = NoEv
          /\ pc' = "done" /\ result' = KeysError
          /\ UNCHANGED <<conn, in_txn, committed, work, _table_name, last, calls, rd, merge_src>>
     ELSE BeginWrite("dict", rs, Stored(work, _table_name))
  /\ UNCHANGED <<key_in, key_out>>

(***************************************************************************)
(* One iteration of the retry loop.                                        *)
(***************************************************************************)
\* The column list the INSERT statement names.
StmtCols(o, rs) == IF o = "dict" THEN Keys(rs[1]) ELSE Columns

\* The parameter tuples handed to executemany.
StmtParams(o, rs) == IF o = "dict" THEN [i \in 1..Len(rs) |-> Values(rs[i])] ELSE rs

\* The statement does not compile: unknown table, "VALUES ()", a number of
\* placeholders that is not the table's number of columns, or a column list
\* that names a column the table does not have.
PrepareFails(o, rs, tgt) ==
  \/ tgt \notin DOMAIN work
  \/ Len(rs[1]) = 0
  \/ o # "dict" /\ Len(rs[1]) # Len(Columns)
  \/ o = "dict" /\ ~ensure_keys(Columns, KeySet(rs[1]))

\* What executemany leaves behind when the write lock is granted.
Inserted(o, rs, tgt) == ExecuteMany(work[tgt], StmtCols(o, rs), StmtParams(o, rs))

\* Variants of the retry condition: off by one, and comparison reversed.
MayRetry_OffByOne(rc) == rc <= max_retry
MayRetry_Reversed(rc) == rc > max_retry

\* 'database is locked' in str(e) and retry_count < self.max_retry
MayRetry(rc) == rc < max_retry

\* Variant of the handler that raises on exhaustion without the ROLLBACK.
OnLocked_NoRollback(w, at_commit) ==
  /\ IF ~HasMaxRetry(op)
     THEN /\ pc' = "done" /\ result' = AttributeError
          /\ work' = w
          /\ retry_count' = 0 /\ attempts' = 0
          /\ UNCHANGED in_txn
          /\ ev' = [ev EXCEPT !.commit_busy = @ \/ at_commit, !.last_err = Locked,
                              !.at_max = (retry_count = max_retry)]
     ELSE IF MayRetry(retry_count)
     THEN /\ retry_count' = retry_count + 1
          /\ attempts' = attempts + 1
          /\ work' = w
          /\ UNCHANGED <<pc, result, in_txn>>
          /\ ev' = [ev EXCEPT !.commit_busy = @ \/ at_commit, !.last_err = Locked,
                              !.at_max = (retry_count = max_retry),
                              !.retried = TRUE]
     ELSE /\ pc' = "done" /\ result' = Locked
          /\ work' = w
          /\ retry_count' = 0 /\ attempts' = 0
          /\ UNCHANGED in_txn
          /\ ev' = [ev EXCEPT !.commit_busy = @ \/ at_commit, !.last_err = Locked,
                              !.at_max = (retry_count = max_retry)]

\* except sqlite3.OperationalError as e, for e = 'database is locked';
\* w is the connection's view when the exception is raised.
OnLocked(w, at_commit) ==
  /\ IF ~HasMaxRetry(op)
     THEN \* evaluating self.max_retry raises inside the handler
          /\ pc' = "done" /\ result' = AttributeError
          /\ work' = w
          /\ retry_count' = 0 /\ attempts' = 0
          /\ UNCHANGED in_txn
          /\ ev' = [ev EXCEPT !.commit_busy = @ \/ at_commit, !.last_err = Locked,
                              !.at_max = (retry_count = max_retry)]
     ELSE IF MayRetry(retry_count)
     THEN /\ retry_count' = retry_count + 1
          /\ attempts' = attempts + 1
          /\ work' = w
          /\ UNCHANGED <<pc, result, in_txn>>
          /\ ev' = [ev EXCEPT !.commit_busy = @ \/ at_commit, !.last_err = Locked,
                              !.at_max = (retry_count = max_retry),
                              !.retried = TRUE]
     ELSE \* cur.execute('ROLLBACK'); cur.close(); raise e
          /\ pc' = "done" /\ result' = Locked
          /\ work' = committed
          /\ in_txn' = FALSE
          /\ retry_count' = 0 /\ attempts' = 0
          /\ ev' = [ev EXCEPT !.rollback = TRUE, !.commit_busy = @ \/ at_commit,
                              !.last_err = Locked,
                              !.at_max = (retry_count = max_retry)]

\* rows[0] of an empty batch: raised while the statement text is built.
AttemptIndexError ==
  /\ pc = "attempt" /\ rows = <<>>
  /\ pc' = "done" /\ result' = IndexError
  /\ retry_count' = 0 /\ attempts' = 0
  /\ UNCHANGED <<conn, in_txn, committed, work, _table_name, op, rows, target,
                 ev, pre, last, calls, rd, merge_src>>
  /\ UNCHANGED <<key_in, key_out>>

\* An OperationalError other than the lock conflict: ROLLBACK, raise.
AttemptPrepareError ==
  /\ pc = "attempt" /\ rows # <<>>
  /\ PrepareFails(op, rows, target)
  /\ pc' = "done" /\ result' = OpError
  /\ retry_count' = 0 /\ attempts' = 0
  /\ work' = committed /\ in_txn' = FALSE
  /\ ev' = [ev EXCEPT !.rollback = TRUE, !.last_err = OpError,
                      !.at_max = (retry_count = max_retry)]
  /\ UNCHANGED <<conn, committed, _table_name, op, rows, target,
                 pre, last, calls, rd, merge_src>>
  /\ UNCHANGED <<key_in, key_out>>

\* The engine cannot take the lock for the INSERT: nothing is inserted.
AttemptLockedAtInsert ==
  /\ pc = "attempt" /\ rows # <<>>
  /\ OnLocked(work, FALSE)
  /\ UNCHANGED <<conn, committed, _table_name, op, rows, target,
                 pre, last, calls, rd, merge_src>>
  /\ UNCHANGED <<key_in, key_out>>

\* A row raises an error that is not an OperationalError: it is not caught.
AttemptRowError ==
  /\ pc = "attempt" /\ rows # <<>>
  /\ ~PrepareFails(op, rows, target)
  /\ Inserted(op, rows, target).err # Ok
  /\ pc' = "done" /\ result' = Inserted(op, rows, target).err
  /\ retry_count' = 0 /\ attempts' = 0
  /\ work' = [work EXCEPT ![target] = Inserted(op, rows, target).tbl]
  /\ ev' = [ev EXCEPT !.last_err = Inserted(op, rows, target).err,
                      !.at_max = (retry_count = max_retry)]
  /\ UNCHANGED <<conn, in_txn, committed, _table_name, op, rows, target,
                 pre, last, calls, rd, merge_src>>
  /\ UNCHANGED <<key_in, key_out>>

\* All rows inserted, COMMIT refused because a reader holds its lock.
AttemptLockedAtCommit ==
  /\ pc = "attempt" /\ rows # <<>>
  /\ ~PrepareFails(op, rows, target)
  /\ Inserted(op, rows, target).err = Ok
  /\ Len(Inserted(op, rows, target).tbl) + Len(rows) <= MaxRows
  /\ OnLocked([work EXCEPT ![target] = Inserted(op, rows, target).tbl], TRUE)
  /\ UNCHANGED <<conn, committed, _table_name, op, rows, target,
                 pre, last, calls, rd, merge_src>>
  /\ UNCHANGED <<key_in, key_out>>

\* All rows inserted and COMMIT succeeds.
AttemptCommit ==
  /\ pc = "attempt" /\ rows # <<>>
  /\ ~PrepareFails(op, rows, target)
  /\ Inserted(op, rows, target).err = Ok
  /\ pc' = "done" /\ result' = Ok
  /\ retry_count' = 0 /\ attempts' = 0
  /\ work' = [work EXCEPT ![target] = Inserted(op, rows, target).tbl]
  /\ committed' = work'
  /\ in_txn' = FALSE
  /\ ev' = [ev EXCEPT !.last_err = Ok, !.at_max = (retry_count = max_retry)]
  /\ UNCHANGED <<conn, _table_name, op, rows, target,
                 pre, last, calls, rd, merge_src>>
  /\ UNCHANGED <<key_in, key_out>>

\* The caller goes on: the finished operation's locals are gone.
Return ==
  /\ pc = "done"
  /\ pc' = "idle" /\ op' = "none" /\ rows' = <<>> /\ target' = NoTable
  /\ result' = "none"
  /\ ev' = NoEv /\ pre' = NoPre /\ rd' = NoRd /\ merge_src' = <<>>
  /\ UNCHANGED <<conn, in_txn, committed, work, _table_name, last, calls,
                 retry_count, attempts>>
  /\ key_in' = <<>> /\ key_out' = NoKey

(***************************************************************************)
(* Sqlite3Db.close(commit); __del__ is close().  busy: the engine refuses  *)
(* the commit.                                                             *)
(***************************************************************************)
\* self.conn.commit() inside close: what the call raises
CommitAtClose(commit, busy) ==
  IF ~commit THEN Ok
  ELSE IF conn = "closed" THEN ClosedError
  ELSE IF busy THEN Locked
  ELSE Ok

\* Variant of the handler that lets the error through.
Suppress_Reraise(err) == err

\* try: ... except: pass
Suppress(err) == Ok

close(commit, busy) ==
  /\ pc = "idle"
  /\ op' = IF commit THEN "close" ELSE "close_no_commit"
  /\ pc' = "done"
  /\ pre' = [work |-> work, in_txn |-> in_txn, conn |-> conn]
  /\ result' = Suppress(CommitAtClose(commit, busy))
  /\ IF result' # Ok
     THEN UNCHANGED <<conn, in_txn, work, committed>>
     ELSE /\ conn' = "closed"
          /\ in_txn' = FALSE
          /\ IF CommitAtClose(commit, busy) = Ok /\ commit /\ conn = "open"
             THEN committed' = work /\ work' = work
             ELSE work' = committed /\ committed' = committed
  /\ UNCHANGED <<_table_name, rows, target, retry_count, attempts, ev,
                 last, calls, rd, merge_src>>
  /\ UNCHANGED <<key_in, key_out>>

(***************************************************************************)
(* cursor_reader_tuple / cursor_reader_dict: a generator over one cursor.  *)
(***************************************************************************)
Min(a, b) == IF a < b THEN a ELSE b

\* Variant that returns full batches only.
fetchmany_FullOnly(tbl, pos, size) ==
  IF pos + size <= Len(tbl) THEN SubSeq(tbl, pos + 1, pos + size) ELSE <<>>

\* cursor.fetchmany(size) of a cursor that has already returned pos rows.
fetchmany(tbl, pos, size) == SubSeq(tbl, pos + 1, Min(pos + size, Len(tbl)))

\* TestTable.tuple_to_dict
tuple_to_dict(row) == [key |-> row[1], value |-> row[2]]

\* The first next(): the cursor is opened and the SELECT executed.
cursor_reader(kind, batch_size) ==
  /\ pc = "idle" /\ _table_name # NoTable
  /\ op' = kind /\ target' = Stored(work, _table_name)
  /\ pre' = [work |-> work, in_txn |-> in_txn, conn |-> conn]
  /\ rd' = [kind |-> kind, batch_size |-> batch_size, pos |-> 0, out |-> <<>>]
  /\ IF conn = "closed"
     THEN pc' = "done" /\ result' = ClosedError
     ELSE pc' = "reading" /\ result' = "none"
  /\ UNCHANGED <<conn, in_txn, committed, work, _table_name, rows, retry_count,
                 attempts, ev, last, calls, merge_src>>
  /\ UNCHANGED <<key_in, key_out>>

\* rows = cur.fetchmany(batch_size); if not rows: break; yield rows
Fetch ==
  /\ pc = "reading"
  /\ LET batch == fetchmany(work[target], rd.pos, rd.batch_size)
     IN  IF batch = <<>>
         THEN /\ pc' = "done" /\ result' = Ok
              /\ rd' = rd
         ELSE /\ rd' = [rd EXCEPT
                    !.pos = @ + Len(batch),
                    !.out = Append(@, IF rd.kind = "read_dict"
                                      THEN [i \in 1..Len(batch) |-> tuple_to_dict(batch[i])]
                                      ELSE batch)]
              /\ UNCHANGED <<pc, result>>
  /\ UNCHANGED <<conn, in_txn, committed, work, _table_name, op, rows, target,
                 retry_count, attempts, ev, pre, last, calls, merge_src>>
  /\ UNCHANGED <<key_in, key_out>>

(***************************************************************************)
(* Sqlite3Utils.merge_db(db_to_merge_into, db_to_merge).  The modelled     *)
(* connection is db_to_merge_into; db_to_merge is an open connection on    *)
(* another file, given by its tables in the order table_list returns them. *)
(***************************************************************************)
T1 == <<"t">>
T2 == <<"_", "9", "_", "T">>
r1 == <<IntVal("1"), TextVal("a")>>
r2 == <<IntVal("2"), TextVal("b")>>

SrcDbs == { << >>,
            << [name |-> T1, columns |-> Columns, rows |-> <<r1, r2>>] >>,
            << [name |-> T2, columns |-> Columns, rows |-> <<r2>>],
               [name |-> T1, columns |-> Columns, rows |-> <<r1>>] >>,
            << [name |-> T2, columns |-> <<"value", "key">>, rows |-> << >>],
               [name |-> T1, columns |-> Columns, rows |-> <<r2>>] >> }

\* Sqlite3Db.has_table on a connection whose view of its database is w
HasTable(w, table_name) == ensure_safe_key_string(table_name) \in DOMAIN w

\* Sqlite3Db.has_table on the modelled connection
has_table(table_name) == HasTable(work, table_name)

\* Sqlite3Db.get_table_keys: the SELECT runs, then self.conn.description is
\* read, an attribute a sqlite3.Connection does not have.
get_table_keys(exists, columns) ==
  IF ~exists THEN [err |-> OpError, keys |-> <<>>]
  ELSE [err |-> AttributeError, keys |-> <<>>]

KeysNotMatched == "Exception: Keys are not matched"

\* Variant in which the failed statement rolls the destination back.
CreateTableAsSelect_RollingBack(w, table_name) ==
  [err |-> OpError, work |-> committed]

\* conn.execute('CREATE TABLE t AS SELECT * FROM t') on the destination:
\* the SELECT names a table of the destination itself, which in this branch
\* does not exist.
CreateTableAsSelect(w, table_name) ==
  IF table_name \in DOMAIN w
  THEN [err |-> OpError, work |-> w]
  ELSE [err |-> OpError, work |-> w]

\* db_to_merge.cursor_reader_tuple: Sqlite3Db defines no such method.
DbCursorReaderTuple(tbl) == [err |-> AttributeError, batches |-> <<>>]

\* The body of the loop for one source table t, on a destination whose
\* connection sees w: the error it raises, or Ok, and what it leaves.
MergeTable(w, t) ==
  LET keys_to_merge == get_table_keys(TRUE, t.columns)
      keys_to_merge_into == get_table_keys(HasTable(w, t.name), Columns)
      check == IF HasTable(w, t.name)
               THEN [err |-> IF keys_to_merge.err # Ok THEN keys_to_merge.err
                             ELSE IF keys_to_merge_into.err # Ok THEN keys_to_merge_into.err
                             ELSE IF keys_to_merge.keys # keys_to_merge_into.keys
                                  THEN KeysNotMatched
                                  ELSE Ok,
                     work |-> w]
               ELSE CreateTableAsSelect(w, t.name)
  IN  IF check.err # Ok THEN check
      ELSE [err |-> DbCursorReaderTuple(t).err, work |-> check.work]

\* for table_name in db_to_merge.table_list(): ...
RECURSIVE MergeRun(_, _)
MergeRun(w, src) ==
  IF src = <<>> THEN [err |-> Ok, work |-> w]
  ELSE IF conn = "closed" THEN [err |-> ClosedError, work |-> w]
  ELSE IF MergeTable(w, Head(src)).err # Ok THEN MergeTable(w, Head(src))
  ELSE MergeRun(MergeTable(w, Head(src)).work, Tail(src))

\* The source is reached through table_list and get_table_keys, which only
\* SELECT from it: it holds after the call what it held before.
merge_db(src) ==
  /\ pc = "idle"
  /\ op' = "merge" /\ pc' = "done"
  /\ merge_src' = src
  /\ pre' = [work |-> work, in_txn |-> in_txn, conn |-> conn, src |-> src]
  /\ result' = MergeRun(work, src).err
  /\ work' = MergeRun(work, src).work
  /\ committed' = IF in_txn THEN committed ELSE work'
  /\ UNCHANGED <<conn, in_txn, _table_name, rows, target,
                 retry_count, attempts, ev, last, calls, rd>>
  /\ UNCHANGED <<key_in, key_out>>

(***************************************************************************)
(* The specification.                                                      *)
(***************************************************************************)
Next ==
  \/ \E n \in NameInputs, busy \in BOOLEAN : Sqlite3Table_init(n, busy)
  \/ \E rs \in TupleBatches : safe_insert_many_tuple(rs)
  \/ \E rs \in DictBatches : safe_insert_many_dict(rs)
  \/ \E n \in NameInputs, rs \in TupleBatches : db_safe_insert_many_tuple(n, rs)
  \/ AttemptIndexError
  \/ AttemptPrepareError
  \/ AttemptLockedAtInsert
  \/ AttemptRowError
  \/ AttemptLockedAtCommit
  \/ AttemptCommit
  \/ Return
  \/ \E commit \in BOOLEAN, busy \in BOOLEAN : close(commit, busy)
  \/ \E kind \in {"read_tuple", "read_dict"}, b \in 1..MaxBatchSize : cursor_reader(kind, b)
  \/ Fetch
  \/ \E src \in SrcDbs : merge_db(src)

Spec == Init /\ [][Next]_vars

\* A write in progress keeps running: the loop only sleeps between attempts.
Attempt ==
  \/ AttemptIndexError
  \/ AttemptPrepareError
  \/ AttemptLockedAtInsert
  \/ AttemptRowError
  \/ AttemptLockedAtCommit
  \/ AttemptCommit

FairSpec == Spec /\ WF_vars(Attempt)

Terminates == (pc = "attempt") ~> (pc = "done")

(***************************************************************************)
(* safe_key_string on its own: a key is drawn, normalised, and the result  *)
(* is handed to safe_key_string again, as has_table and the write          *)
(* operations of Sqlite3Db do with an identifier that is already normal.   *)
(***************************************************************************)
RECURSIVE StringsOfLen(_)
StringsOfLen(n) ==
  IF n = 0 THEN { <<>> }
  ELSE { Append(t, c) : t \in StringsOfLen(n - 1), c \in Chars }

KeyInputs == UNION { StringsOfLen(n) : n \in 0..MaxLen }

NormInit ==
  /\ conn = "open"
  /\ in_txn = FALSE
  /\ committed = <<>>
  /\ work = committed
  /\ _table_name = NoTable
  /\ pc = "idle"
  /\ op = "none"
  /\ rows = <<>>
  /\ target = NoTable
  /\ retry_count = 0
  /\ result = "none"
  /\ attempts = 0
  /\ ev = NoEv
  /\ pre = NoPre
  /\ last = [tbl |-> NoTable, base |-> 0, blen |-> 0]
  /\ calls = 0
  /\ rd = NoRd
  /\ merge_src = <<>>
  /\ key_in \in KeyInputs
  /\ key_out = NoKey

\* safe_key_string(key) on the drawn key
NormalizeKey ==
  /\ key_out = NoKey
  /\ key_out' = safe_key_string(key_in)
  /\ UNCHANGED <<key_in, conn, in_txn, committed, work, _table_name, pc, op, rows,
                 target, retry_count, result, attempts, ev, pre, last, calls,
                 rd, merge_src>>

\* safe_key_string on what the previous call returned
NormalizeAgain ==
  /\ key_out # NoKey /\ key_out # key_in
  /\ key_in' = key_out
  /\ key_out' = safe_key_string(key_out)
  /\ UNCHANGED <<conn, in_txn, committed, work, _table_name, pc, op, rows,
                 target, retry_count, result, attempts, ev, pre, last, calls,
                 rd, merge_src>>

NormNext == NormalizeKey \/ NormalizeAgain

NormSpec == NormInit /\ [][NormNext]_vars

(***************************************************************************)
(* Properties.                                                             *)
(***************************************************************************)
WriteOps == {"tuple", "dict", "db"}
TableWriteOps == {"tuple", "dict"}

\* The write that has finished opened its transaction and ran its loop.
WriteDone == pc = "done" /\ op \in WriteOps /\ ev.opened

\* C1: every bulk write is all-or-nothing, also after any later commit on
\* the same connection: the committed table holds, beyond the rows it held
\* when the last write began, either no row of that write's batch or all of
\* them.
C1_AllOrNothing ==
  (pc # "attempt" /\ last.tbl \in DOMAIN committed) =>
     \/ Len(committed[last.tbl]) = last.base
     \/ Len(committed[last.tbl]) >= last.base + last.blen

\* C2: a non-empty batch of tuples inserted by a safe_insert_many_tuple that
\* returns successfully raises count() by exactly the batch length, and the
\* table then reads as the previously stored rows followed by the batch's
\* rows in insertion order.
C2_TupleInsertAppendsBatch ==
  (WriteDone /\ op = "tuple" /\ result = Ok /\ rows # <<>>) =>
     /\ Len(work[target]) = Len(pre.work[target]) + Len(rows)
     /\ work[target] = pre.work[target] \o rows

\* The batched insert failed with something that is not the lock conflict.
NonTransientFailure == ev.last_err \in {OpError, ProgError, IntegrityError}

\* C3: when the batched insert fails with a failure that is not a transient
\* lock conflict, the write issues an explicit ROLLBACK, leaves no
\* transaction open and propagates the original error.
C3_NonTransientRollsBack ==
  (WriteDone /\ NonTransientFailure) =>
     /\ ev.rollback
     /\ ~in_txn
     /\ work = committed
     /\ result = ev.last_err

\* C4: a write always ends in success, retry exhaustion or another error;
\* the retry counter starts at 0, grows by one only on a lock conflict met
\* below max_retry, never exceeds max_retry, and the batched insert is
\* attempted at most max_retry + 1 times: every attempt but the one about to
\* be made has been counted, and the lock error is raised only by the
\* attempt made with the counter at max_retry.
C4_Bound ==
  /\ retry_count \in 0..max_retry
  /\ pc = "attempt" => (attempts = retry_count /\ attempts + 1 <= max_retry + 1)
  /\ (pc = "done" /\ op \in WriteOps) =>
        /\ result # "none"
        /\ result = Locked => ev.at_max

C4_Step ==
  /\ (pc = "idle" /\ pc' = "attempt") => (retry_count' = 0 /\ attempts' = 0)
  /\ (pc = "attempt" /\ pc' = "attempt" /\ retry_count' # retry_count) =>
        /\ retry_count' = retry_count + 1
        /\ retry_count < max_retry
        /\ ev'.last_err = Locked
  /\ (pc = "attempt" /\ pc' = "attempt") => retry_count' # retry_count

C4_WriteTerminates == []C4_Bound /\ [][C4_Step]_vars /\ Terminates

\* C4 witness: a write that succeeds at its last permitted attempt.
C4_Witness ==
  pc = "done" /\ op \in WriteOps /\ ev.at_max /\ result = Ok

\* C5: when the retry budget is exhausted (retry counter equals max_retry)
\* and the attempt fails with the lock conflict again, the write issues the
\* ROLLBACK, leaves no transaction open, raises the lock-conflict error, and
\* the table is as it was before the call.
C5_ExhaustionRollsBack ==
  (WriteDone /\ ev.at_max /\ ev.last_err = Locked) =>
     /\ result = Locked
     /\ ev.rollback
     /\ ~in_txn
     /\ work = pre.work
     /\ committed = pre.work
     /\ Len(work[target]) = Len(pre.work[target])

\* C5 witness: an exhausted write on a table that already held rows, with a
\* conflict met at COMMIT on the way.
C5_Witness ==
  /\ WriteDone /\ ev.at_max /\ ev.last_err = Locked
  /\ result = Locked /\ ev.commit_busy
  /\ Len(pre.work[target]) > 0

\* The batch has no fault of its own on the table as it was at the call.
BatchValid ==
  /\ rows # <<>>
  /\ ~PrepareFails(op, rows, target)
  /\ ExecuteMany(pre.work[target], StmtCols(op, rows), StmtParams(op, rows)).err = Ok

BatchCommittedOnce ==
  committed[target] =
    ExecuteMany(pre.work[target], StmtCols(op, rows), StmtParams(op, rows)).tbl

\* C6: a lock conflict reaches the caller of a Table write only after
\* max_retry + 1 attempts; a sound batch that met only another writer's lock
\* (conflicts at the INSERT, none at COMMIT) on fewer attempts eventually
\* returns with the whole batch committed, once.
C6_Done ==
  (WriteDone /\ op \in TableWriteOps) =>
     /\ result = Locked => ev.at_max
     /\ (BatchValid /\ ~ev.commit_busy /\ ~(ev.at_max /\ ev.last_err = Locked)) =>
           (result = Ok /\ BatchCommittedOnce /\ ~in_txn)

C6_LockSurfacesOnlyAfterExhaustion ==
  /\ []C6_Done
  /\ (pc = "attempt" /\ op \in TableWriteOps /\ BatchValid)
        ~> (pc = "done" /\ (result = Ok \/ ev.at_max \/ ev.commit_busy))

\* C6 witness: a Table write that met the writer's lock and then succeeded.
C6_Witness ==
  /\ WriteDone /\ op \in TableWriteOps /\ result = Ok
  /\ ev.retried /\ ~ev.at_max /\ ~ev.commit_busy
  /\ BatchCommittedOnce

ColumnSet == { Columns[i] : i \in 1..Len(Columns) }

\* C7: safe_insert_many_dict on a batch whose keys include a name that is
\* not a column raises the keys error before any transaction is opened or
\* any row written; the table is unchanged.
C7_UnknownKeyRejected ==
  (pc = "done" /\ op = "dict" /\ conn = "open"
     /\ ~(UNION { KeySet(rows[i]) : i \in 1..Len(rows) } \subseteq ColumnSet)) =>
     /\ result = KeysError
     /\ ~ev.opened
     /\ ev.last_err = "none"
     /\ in_txn = pre.in_txn
     /\ work = pre.work
     /\ Len(work[target]) = Len(pre.work[target])

\* C7 witness: the unknown key is carried by the second row only.
C7_Witness ==
  /\ pc = "done" /\ op = "dict" /\ result = KeysError
  /\ Len(rows) = 2 /\ KeySet(rows[1]) \subseteq ColumnSet
  /\ ~(KeySet(rows[2]) \subseteq ColumnSet)

\* The value a mapping holds under key k.
DictGet(d, k) == d[CHOOSE j \in 1..Len(d) : d[j][1] = k][2]

\* C8: after a successful safe_insert_many_dict every row of the batch is
\* stored with each of its values under the column its own key names, the
\* other columns unset, so that the row read back through tuple_to_dict is
\* the inserted mapping; also for rows whose keys come in another order or
\* are another subset than the first row's.
C8_DictRoundTrip ==
  (WriteDone /\ op = "dict" /\ result = Ok) =>
     \A i \in 1..Len(rows) :
        LET stored == tuple_to_dict(work[target][Len(pre.work[target]) + i])
        IN  \A c \in ColumnSet :
               stored[c] = IF c \in KeySet(rows[i]) THEN DictGet(rows[i], c) ELSE NULL

RECURSIVE Flatten(_)
Flatten(batches) ==
  IF batches = <<>> THEN <<>> ELSE Head(batches) \o Flatten(Tail(batches))

ReadDone == pc = "done" /\ op \in {"read_tuple", "read_dict"} /\ result = Ok

\* C9: for N stored rows and batch size B >= 1 the reader yields ceil(N/B)
\* non-empty batches in storage order, all of length B except possibly the
\* last, whose length is N mod B (or B), N rows in all with none repeated or
\* left out; for N = 0 no batch; cursor_reader_dict yields the same batches
\* with every row passed through tuple_to_dict.
C9_BatchedRead ==
  ReadDone =>
    LET N == Len(work[target])
        B == rd.batch_size
        n == Len(rd.out)
        stored == IF op = "read_dict"
                  THEN [i \in 1..N |-> tuple_to_dict(work[target][i])]
                  ELSE work[target]
    IN  /\ n = (N + B - 1) \div B
        /\ \A i \in 1..n : Len(rd.out[i]) >= 1
        /\ \A i \in 1..(n - 1) : Len(rd.out[i]) = B
        /\ n > 0 => Len(rd.out[n]) = (IF N % B = 0 THEN B ELSE N % B)
        /\ Flatten(rd.out) = stored
        /\ N = 0 => rd.out = <<>>

\* C9 witness: three rows read in batches of two, the last batch short.
C9_Witness ==
  /\ ReadDone /\ op = "read_dict"
  /\ Len(work[target]) = 3 /\ rd.batch_size = 2
  /\ Len(rd.out) = 2 /\ Len(rd.out[2]) = 1

\* C10: merging a source that holds table T1 with rows [r1, r2] into an
\* empty destination completes without error and leaves the destination
\* with table T1 holding exactly r1, r2, each once.
C10_MergeIntoEmpty ==
  (pc = "done" /\ op = "merge" /\ conn = "open" /\ pre.work = <<>>
     /\ merge_src = << [name |-> T1, columns |-> Columns, rows |-> <<r1, r2>>] >>) =>
     /\ result = Ok
     /\ T1 \in DOMAIN committed
     /\ committed[T1] = <<r1, r2>>

\* C15: normalisation is idempotent: safe_key_string applied to a string
\* that safe_key_string returned gives that string back.
C15_NormalizeIdempotent ==
  key_out # NoKey => safe_key_string(key_out) = key_out

\* C15 witness: a key that normalisation changed, normalised a second time.
C15_Witness ==
  /\ key_out # NoKey /\ key_in = key_out
  /\ Len(key_out) = MaxLen + 1 /\ key_out[1] = "_" /\ key_out[2] \in Digits
  /\ \E i \in 3..Len(key_out) : key_out[i] = "_"

IsAlnum(c) == c \in Letters \cup Digits

\* C16: safe_key_string(s) contains only characters of [A-Za-z0-9_] and does
\* not begin with a digit; every character outside [A-Za-z0-9] is replaced
\* one for one by "_", and exactly one "_" is prepended iff the replaced
\* string begins with a digit; "92M#Al-Function-Name" gives
\* "_92M_Al_Function_Name".
C16_NormalForm ==
  /\ safe_key_string(<<"9", "2", "M", "#", "A", "l", "-", "F", "u", "n", "c", "t", "i", "o", "n", "-", "N", "a", "m", "e">>) = <<"_", "9", "2", "M", "_", "A", "l", "_", "F", "u", "n", "c", "t", "i", "o", "n", "_", "N", "a", "m", "e">>
  /\ key_out # NoKey =>
       LET lead == Len(key_in) > 0 /\ key_in[1] \in Digits
           off == IF lead THEN 1 ELSE 0
       IN  /\ \A i \in 1..Len(key_out) : IsAlnum(key_out[i]) \/ key_out[i] = "_"
           /\ Len(key_out) > 0 => key_out[1] \notin Digits
           /\ Len(key_out) = Len(key_in) + off
           /\ lead => key_out[1] = "_"
           /\ \A i \in 1..Len(key_in) :
                key_out[i + off] = IF IsAlnum(key_in[i]) THEN key_in[i] ELSE "_"

\* C16 witness: a key that begins with a digit and holds a character outside
\* the classes has been normalised.
C16_Witness ==
  /\ key_out # NoKey /\ key_in # key_out
  /\ Len(key_in) = MaxLen /\ key_in[1] \in Digits
  /\ \E i \in 2..Len(key_in) : key_in[i] \in Others

\* C14: after a Table has been constructed with name s, its identifier is
\* safe_key_string(s), the physical table with that identifier exists,
\* has_table(s) returns true, and a construction over a table that already
\* exists leaves the stored rows as they were.
C14_TableConstruction ==
  (pc = "done" /\ op = "init" /\ result = Ok) =>
     /\ _table_name = safe_key_string(key_in)
     /\ TableExists(work, _table_name)
     /\ has_table(key_in)
     /\ \A t \in DOMAIN pre.work : t \in DOMAIN work /\ work[t] = pre.work[t]

CloseOps == {"close", "close_no_commit"}

\* C13: close never raises, whatever the state of the Connection (open with
\* or without a pending transaction, or closed already) and whatever the
\* value of commit; it leaves the Connection closed, and a close of a closed
\* Connection, the one of __del__ included, changes nothing.
C13_CloseIdempotent ==
  (pc = "done" /\ op \in CloseOps) =>
     /\ result = Ok
     /\ conn = "closed"
     /\ ~in_txn
     /\ pre.conn = "closed" => (work = pre.work /\ committed = pre.work)

\* C13 witness: close() with commit on a Connection that is closed already,
\* as __del__ does after an explicit close.
C13_Witness ==
  /\ pc = "done" /\ op = "close" /\ pre.conn = "closed"
  /\ result = Ok /\ conn = "closed"
  /\ DOMAIN work # {}

MergeDone == pc = "done" /\ op = "merge" /\ pre.conn = "open"

\* The merge called on source src reaches table i: the tables before it are
\* merged without error.
RECURSIVE Reaches(_, _, _)
Reaches(w, src, i) ==
  IF i = 1 THEN src # <<>>
  ELSE /\ src # <<>>
       /\ MergeTable(w, Head(src)).err = Ok
       /\ Reaches(MergeTable(w, Head(src)).work, Tail(src), i - 1)

\* Table i of the source exists in the destination as the call found it.
InDestination(i) == HasTable(pre.work, pre.src[i].name)

\* C11: when merge_db reaches a source table that exists in the destination
\* with a column list that is not the source's, the merge fails with the
\* schema-mismatch error, the destination's rows of that table are unchanged
\* and no later source table is created or written in the destination.
C11_SchemaMismatchFailsMerge ==
  MergeDone =>
    \A i \in DOMAIN pre.src :
      (Reaches(pre.work, pre.src, i)
         /\ InDestination(i) /\ pre.src[i].columns # Columns) =>
         /\ result = KeysNotMatched
         /\ work = pre.work

IsPrefix(a, b) == Len(a) <= Len(b) /\ SubSeq(b, 1, Len(a)) = a

C18_MergeAppends ==
  MergeDone =>
    \A i \in DOMAIN pre.src :
      (Reaches(pre.work, pre.src, i)
         /\ InDestination(i) /\ pre.src[i].columns = Columns) =>
         LET t == pre.src[i] IN
         /\ Len(work[t.name]) = Len(pre.work[t.name]) + Len(t.rows)
         /\ work[t.name] = pre.work[t.name] \o t.rows

\* C17: db_safe_insert_many_tuple follows the protocol of
\* Table.safe_insert_many_tuple: for either of them, a write whose last
\* attempt met the lock conflict ends as the protocol says, with the retry
\* budget spent, the ROLLBACK issued, no transaction open, the table as it
\* was at the call and the lock error raised.
C17_DbWriteSameProtocol ==
  (WriteDone /\ op \in {"tuple", "db"} /\ ev.last_err = Locked) =>
     /\ result = Locked
     /\ ev.at_max
     /\ ev.rollback
     /\ ~in_txn
     /\ work = pre.work

\* C19: when a write operation has finished, by returning or by raising,
\* the transaction it opened is no longer open on the Connection.
C19_TransactionClosed ==
  WriteDone => ~in_txn

\* C20: a write that succeeds after a retry has committed each row of its
\* batch exactly once, wherever in the retried block the lock conflict was
\* reported.
C20_RetryInsertsOnce ==
  (WriteDone /\ result = Ok /\ ev.retried /\ rows # <<>>) =>
     /\ Len(committed[target]) = Len(pre.work[target]) + Len(rows)
     /\ BatchCommittedOnce

====
